---- MODULE Spec2Model ----
(***************************************************************************)
(* Remindly-Pro-Bot: the database poller of scheduler_core.py              *)
(* (UniversalReminderScheduler), the reminder rows of db.py it works on    *)
(* and the user commands of main.py that change those rows; and the        *)
(* tournament broadcaster (TournamentScheduler) with its APScheduler job   *)
(* store and the subscriptions it reconciles against.                      *)
(*                                                                         *)
(* Time is counted in whole seconds since 1970-01-01 00:00:00 UTC (a       *)
(* Thursday), as Python's aware datetimes in UTC do.  A reminder row is a  *)
(* record [kind, cron_expr, remind_at, next_at, paused]; the table         *)
(* public.reminders is a function from the ids of the existing rows.       *)
(***************************************************************************)
EXTENDS Integers, Sequences, FiniteSets, TLC

VARIABLES
    now,        \* the wall clock, datetime.now(timezone.utc)
    reminders,  \* public.reminders: id -> row, for the rows that exist
    pc,         \* where the poller task is: "sleep" or "send"; "done" when
                \* there is no coroutine (not started yet, or ended)
    now_utc,    \* the poller's local now_utc of the current tick
    rows,       \* the poller's local rows: the batch selected by the tick
    i,          \* position in rows of the row whose send is awaited
    sending,    \* how the awaited send_message ends: "ok", "error"; else "none"
    results,    \* how the sends of rows[1..i-1] of this pass ended;
                \* <<"abandoned">> after a tick that an exception ended
    calc_in,    \* argument <<r, now_utc>> of a _calc_next_for_kind call
    calc_out,   \* <<its result>>, or <<>> before the call
    task,       \* self._task: "none", or the state of the task it refers to:
                \* "running", "cancelling" (cancel() called, CancelledError
                \* not yet thrown into the coroutine), "done"
    unreferenced,   \* poller tasks not done that self._task no longer names
    start_calls,    \* how often start() was called
    subs,       \* the rows <<user_id, chat_id>> of tournament_subscribers
    jobs,       \* the job store of the TournamentScheduler: job id -> job
    passes,     \* the two jobs that run _ensure_tournament_jobs, "boot" (the
                \* one at start) and "cron" (every 5 minutes): where each is
    registered, \* the chats for which _register_daily_jobs_for_chat returned
    quiet,      \* quiet_from and quiet_to of the owner's row of user_prefs
    ret         \* the last call of a function of db.py that a handler made:
                \* <<name, arguments, what it returned or "raised">>

\* the variables of the poller's life cycle
life == <<task, unreferenced, start_calls>>

\* the variables of the tournament broadcaster
tour == <<subs, jobs, passes, registered>>

\* the preferences of the user who owns the reminders
prefs == <<quiet>>

vars == <<now, reminders, pc, now_utc, rows, i, sending, results,
          calc_in, calc_out, task, unreferenced, start_calls,
          subs, jobs, passes, registered, quiet, ret>>

(***************************************************************************)
(* Bounds of the model.                                                    *)
(***************************************************************************)
MaxReminders == 2   \* rows of the table when the bot starts
MaxDay == 1         \* the clock runs over the days 0..MaxDay
CapLimit == 1       \* batch size of the poller scaled to these tables
MaxCalcDay == 6     \* days of the reference instants given to the calculator
MaxStarts == 2      \* calls of start()
MaxChats == 1       \* chats that can subscribe to the tournament reminders

(***************************************************************************)
(* Values.                                                                 *)
(***************************************************************************)
BatchLimit == 50    \* LIMIT 50 of the due query
NULL == -1          \* SQL NULL / Python None for an instant
Raised == -2        \* the call raised instead of returning

Minute == 60
Hour == 60 * Minute
Day == 24 * Hour

CatchUpWindow == 10 * Minute   \* window_minutes = 10 of db.py

Min(S) == CHOOSE x \in S : \A y \in S : x <= y

(***************************************************************************)
(* datetime arithmetic.                                                    *)
(***************************************************************************)
DayOf(t) == t \div Day

\* datetime.weekday(): Monday = 0 ... Sunday = 6; day 0 is a Thursday.
weekday(t) == (DayOf(t) + 3) % 7

\* datetime.replace(hour=hh, minute=mm, second=0, microsecond=0)
ReplaceHM(t, hh, mm) ==
    IF hh \in 0..23 /\ mm \in 0..59
    THEN DayOf(t) * Day + hh * Hour + mm * Minute
    ELSE Raised

(***************************************************************************)
(* The texts a cron_expr column holds in this model, and how Python and    *)
(* croniter read them.                                                     *)
(***************************************************************************)
\* str.split(":") of the stripped text
SplitColon(s) ==
    CASE s = "00:10" -> <<"00", "10">>
      [] s = "23:59" -> <<"23", "59">>
      [] s = "25:00" -> <<"25", "00">>
      [] s = "ab:cd" -> <<"ab", "cd">>
      [] OTHER -> <<s>>

\* int(text); NULL stands for the ValueError of a text that is no number
IntOf(s) ==
    CASE s = "00" -> 0
      [] s = "10" -> 10
      [] s = "23" -> 23
      [] s = "25" -> 25
      [] s = "59" -> 59
      [] OTHER -> NULL

\* _parse_hhmm: <<hh, mm>>, or <<>> for None
parse_hhmm(s) ==
    LET p == SplitColon(s) IN
    IF Len(p) # 2 THEN <<>>
    ELSE IF IntOf(p[1]) = NULL \/ IntOf(p[2]) = NULL THEN <<>>
    ELSE <<IntOf(p[1]), IntOf(p[2])>>

\* croniter's reading of a five-field expression: the minutes and hours it
\* matches (day, month and weekday fields are "*"), or <<>> when croniter
\* rejects the text (CroniterBadCronError).
CronFields(s) ==
    CASE s = "*/15 * * * *" -> <<{0, 15, 30, 45}, 0..23>>
      [] s = "10 0 * * *" -> <<{10}, {0}>>
      [] s = "59 23 * * *" -> <<{59}, {23}>>
      [] OTHER -> <<>>

\* croniter(expr, base).get_next(datetime): the first matching minute
\* strictly after base; Raised when the expression is rejected.
croniter_get_next(expr, base) ==
    LET f == CronFields(expr) IN
    IF f = <<>> THEN Raised
    ELSE Min({c \in {d * Day + h * Hour + m * Minute :
                        d \in {DayOf(base), DayOf(base) + 1},
                        h \in f[2], m \in f[1]} : c > base})

\* (kind or "").strip().lower() for the kinds of this model; "" is NULL
NormKind(kind) ==
    CASE kind = "ONCE" -> "once"
      [] OTHER -> kind

(***************************************************************************)
(* UniversalReminderScheduler._calc_next_for_kind                          *)
(***************************************************************************)
RECURSIVE SkipDays_FromSix(_, _)
\* the loops with "weekday() > 5" and "weekday() <= 5" as their tests
SkipDays_FromSix(candidate, weekend) ==
    IF (weekday(candidate) > 5) = weekend
    THEN candidate
    ELSE SkipDays_FromSix(candidate + Day, weekend)

RECURSIVE SkipDays(_, _)
\* while <weekday test>: candidate += timedelta(days=1)
SkipDays(candidate, weekend) ==
    IF (weekday(candidate) >= 5) = weekend
    THEN candidate
    ELSE SkipDays(candidate + Day, weekend)

RECURSIVE SkipCount(_, _)
\* how often the body of that while loop runs
SkipCount(candidate, weekend) ==
    IF (weekday(candidate) >= 5) = weekend
    THEN 0
    ELSE 1 + SkipCount(candidate + Day, weekend)

\* the calculator with "candidate < now_utc" for "candidate <= now_utc"
calc_next_NotStrict(r, t) ==
    LET kind == NormKind(r.kind)
        cron_expr == r.cron_expr
    IN
    IF kind = "" \/ kind = "once" THEN NULL
    ELSE IF kind \in {"repeat_cron", "cron"} THEN
        LET nxt == croniter_get_next(cron_expr, t + 1) IN
        IF nxt = Raised THEN NULL ELSE nxt
    ELSE
        LET hhmm == parse_hhmm(cron_expr) IN
        IF hhmm = <<>> THEN NULL
        ELSE
            LET c0 == ReplaceHM(t, hhmm[1], hhmm[2]) IN
            IF c0 = Raised THEN Raised
            ELSE
                LET candidate == IF c0 < t THEN c0 + Day ELSE c0 IN
                CASE kind = "repeat_daily" -> candidate
                  [] kind = "repeat_weekdays" -> SkipDays(candidate, FALSE)
                  [] kind = "repeat_weekend" -> SkipDays(candidate, TRUE)
                  [] OTHER -> NULL

calc_next_for_kind(r, t) ==
    LET kind == NormKind(r.kind)
        cron_expr == r.cron_expr
    IN
    IF kind = "" \/ kind = "once" THEN NULL
    ELSE IF kind \in {"repeat_cron", "cron"} THEN
        LET nxt == croniter_get_next(cron_expr, t + 1) IN
        IF nxt = Raised THEN NULL ELSE nxt
    ELSE
        LET hhmm == parse_hhmm(cron_expr) IN
        IF hhmm = <<>> THEN NULL
        ELSE
            LET c0 == ReplaceHM(t, hhmm[1], hhmm[2]) IN
            IF c0 = Raised THEN Raised
            ELSE
                LET candidate == IF c0 <= t THEN c0 + Day ELSE c0 IN
                CASE kind = "repeat_daily" -> candidate
                  [] kind = "repeat_weekdays" -> SkipDays(candidate, FALSE)
                  [] kind = "repeat_weekend" -> SkipDays(candidate, TRUE)
                  [] OTHER -> NULL

(***************************************************************************)
(* Rows and the statements of the poller on them.                          *)
(***************************************************************************)
Row(kind, cron_expr, remind_at, next_at) ==
    [kind |-> kind, cron_expr |-> cron_expr, remind_at |-> remind_at,
     next_at |-> next_at, paused |-> FALSE, chat_id |-> 1, text |-> "text"]

\* COALESCE(next_at, remind_at)
Coalesce(r) == IF r.next_at # NULL THEN r.next_at ELSE r.remind_at

\* the WHERE clause without its paused = false
IsDue_IgnorePaused(r, t) == Coalesce(r) # NULL /\ Coalesce(r) <= t

\* WHERE paused = false AND COALESCE(next_at, remind_at) <= now_utc
IsDue(r, t) == r.paused = FALSE /\ Coalesce(r) # NULL /\ Coalesce(r) <= t

DueIds(store, t) == {id \in DOMAIN store : IsDue(store[id], t)}

\* the tuple of one selected row
Snapshot(store, id) ==
    [id |-> id, chat_id |-> store[id].chat_id, text |-> store[id].text,
     kind |-> store[id].kind, cron_expr |-> store[id].cron_expr,
     remind_at |-> store[id].remind_at, next_at |-> store[id].next_at]

SnapTrigger(row) == IF row.next_at # NULL THEN row.next_at ELSE row.remind_at

\* the due query without its ORDER BY: any limit due rows, in any order
SelectDue_Unordered(store, t, limit) ==
    LET due == DueIds(store, t)
        n == IF Cardinality(due) < limit THEN Cardinality(due) ELSE limit
    IN
    {[k \in 1..n |-> Snapshot(store, s[k])] :
        s \in {q \in [1..n -> due] : \A a, b \in 1..n : a < b => q[a] # q[b]}}

\* ORDER BY COALESCE(next_at, remind_at) ASC LIMIT limit: every result the
\* database may return (rows with equal instants come in any order).
SelectDue(store, t, limit) ==
    LET due == DueIds(store, t)
        n == IF Cardinality(due) < limit THEN Cardinality(due) ELSE limit
    IN
    {[k \in 1..n |-> Snapshot(store, s[k])] :
        s \in {q \in [1..n -> due] :
                 /\ \A a, b \in 1..n : a < b =>
                        /\ q[a] # q[b]
                        /\ Coalesce(store[q[a]]) <= Coalesce(store[q[b]])
                 /\ \A id \in due : (\A a \in 1..n : q[a] # id) =>
                        \A a \in 1..n :
                            Coalesce(store[q[a]]) <= Coalesce(store[id])}}

\* step 4 with the DELETE of a one-off row left out
PostProcess_KeepOnce(store, row, t) ==
    LET k == NormKind(row.kind)
        nxt == calc_next_for_kind(row, t)
    IN
    IF k = "" \/ k = "once" \/ nxt = Raised \/ row.id \notin DOMAIN store
    THEN store
    ELSE IF nxt = NULL
    THEN [store EXCEPT ![row.id].next_at = NULL, ![row.id].paused = TRUE]
    ELSE [store EXCEPT ![row.id].next_at = nxt]

\* step 4 with the UPDATEs lacking their WHERE id = ...
PostProcess_NoWhere(store, row, t) ==
    LET k == NormKind(row.kind)
        nxt == calc_next_for_kind(row, t)
    IN
    IF k = "" \/ k = "once"
    THEN [id \in DOMAIN store \ {row.id} |-> store[id]]
    ELSE IF nxt = Raised \/ row.id \notin DOMAIN store THEN store
    ELSE IF nxt = NULL
    THEN [id \in DOMAIN store |->
             [store[id] EXCEPT !.next_at = NULL, !.paused = TRUE]]
    ELSE [id \in DOMAIN store |-> [store[id] EXCEPT !.next_at = nxt]]

\* step 4 of the loop body for one selected row: DELETE a one-off row,
\* UPDATE next_at of a repeating one, or pause it when no next instant
\* could be computed.  An exception inside the try leaves the row as it is.
PostProcess(store, row, t) ==
    LET k == NormKind(row.kind)
        nxt == calc_next_for_kind(row, t)
    IN
    IF k = "" \/ k = "once"
    THEN [id \in DOMAIN store \ {row.id} |-> store[id]]
    ELSE IF nxt = Raised \/ row.id \notin DOMAIN store THEN store
    ELSE IF nxt = NULL
    THEN [store EXCEPT ![row.id].next_at = NULL, ![row.id].paused = TRUE]
    ELSE [store EXCEPT ![row.id].next_at = nxt]

\* the rows _backfill_next_at_for_active_repeats selects (LIMIT 100 is
\* above the number of rows of the model)
ToFix(store) ==
    {id \in DOMAIN store :
        /\ store[id].paused = FALSE
        /\ store[id].kind # ""
        /\ NormKind(store[id].kind) # "once"
        /\ store[id].next_at = NULL}

\* the rows of fix get the next_at computed for them, where there is one
Backfilled(store, fix, t) ==
    [id \in DOMAIN store |->
        IF id \in fix /\ calc_next_for_kind(store[id], t) \notin {NULL, Raised}
        THEN [store[id] EXCEPT !.next_at = calc_next_for_kind(store[id], t)]
        ELSE store[id]]

BackfillRaises(store, t) ==
    \E id \in ToFix(store) : calc_next_for_kind(store[id], t) = Raised

(***************************************************************************)
(* The clock.                                                              *)
(***************************************************************************)
\* the instants at which the clock is read: the start, and 00:10 and 00:20
\* of each day
Instants ==
    {0} \cup {d * Day + m * Minute : d \in 0..MaxDay, m \in {10, 20}}

Clock ==
    /\ \E t \in Instants : t > now /\ now' = t
    /\ UNCHANGED <<reminders, pc, now_utc, rows, i, sending, results,
                   calc_in, calc_out, life, tour, prefs, ret>>

(***************************************************************************)
(* TournamentScheduler: the fixed slots, the job ids and the job store.    *)
(***************************************************************************)
\* the six (hour, minute) slots at which a tournament reminder is sent
TOURNAMENT_MINUTES ==
    << <<13, 55>>, <<15, 55>>, <<17, 55>>, <<19, 55>>, <<21, 55>>,
       <<23, 55>> >>

\* f"tour_{chat_id}_{hour:02d}{minute:02d}": the chat and the four digits
\* of the slot
job_id(chat_id, slot) == <<"tour", chat_id, slot[1] * 100 + slot[2]>>

Chats == 1..MaxChats

\* the Job that add_job stores: the trigger's hour and minute and args[0]
Job(chat_id, slot) == [chat |-> chat_id, hour |-> slot[1], minute |-> slot[2]]

\* scheduler.get_job(job_id): <<the job>>, or <<>> for None
get_job(store, id) == IF id \in DOMAIN store THEN <<store[id]>> ELSE <<>>

\* Job.remove() -> scheduler.remove_job(id): the store without that id
remove_job(store, id) == [x \in DOMAIN store \ {id} |-> store[x]]

\* add_job without id=: the scheduler gives every job an id of its own
add_job_NewId(store, id, job) ==
    [x \in DOMAIN store \cup {<<"auto", Cardinality(DOMAIN store)>>} |->
        IF x \in DOMAIN store THEN store[x] ELSE job]

\* scheduler.add_job(..., id=job_id, replace_existing=True): a job of that
\* id is replaced, otherwise the job is inserted
add_job(store, id, job) ==
    [x \in DOMAIN store \cup {id} |-> IF x = id THEN job ELSE store[x]]

\* a reconciliation job that is not running
IdlePass == [st |-> "idle", chats |-> <<>>, c |-> 1, s |-> 1, ph |-> "get"]

(***************************************************************************)
(* The rows of public.reminders when the bot starts, at instant 0: rows    *)
(* written by db.add_reminder and db.add_recurring_reminder, and rows of   *)
(* the other kinds the poller expects (repeat_daily with HH:MM,            *)
(* repeat_cron), written by other writers of the table: a daily row whose  *)
(* next_at is still to be backfilled, and rows with a rule the calculator  *)
(* cannot evaluate and a next_at given by their writer.                    *)
(***************************************************************************)
StoredRows ==
    <<Row("once", "", 10 * Minute, NULL),
      Row("cron", "*/15 * * * *", NULL, croniter_get_next("*/15 * * * *", 0)),
      Row("repeat_daily", "00:10", NULL, NULL),
      Row("repeat_daily", "25:00", NULL, 10 * Minute),
      Row("repeat_cron", "bad", NULL, 10 * Minute)>>

\* ids are uuids and carry no order: the tables are taken up to renaming,
\* each with different rows of StoredRows
Tables ==
    UNION {{[id \in 1..n |-> StoredRows[f[id]]] :
               f \in {g \in [1..n -> 1..Len(StoredRows)] :
                        \A a, b \in 1..n : a < b => g[a] < g[b]}} :
           n \in 0..MaxReminders}

(***************************************************************************)
(* User commands of main.py on an existing row.                            *)
(***************************************************************************)
\* db.set_paused / db.set_paused_by_id
set_paused(id, paused) ==
    /\ id \in DOMAIN reminders
    /\ reminders' = [reminders EXCEPT ![id].paused = paused]
    /\ UNCHANGED <<now, pc, now_utc, rows, i, sending, results,
                   calc_in, calc_out, life, tour, prefs, ret>>

\* db.delete_reminder_by_id
delete_reminder_by_id(id) ==
    /\ id \in DOMAIN reminders
    /\ reminders' = [x \in DOMAIN reminders \ {id} |-> reminders[x]]
    /\ UNCHANGED <<now, pc, now_utc, rows, i, sending, results,
                   calc_in, calc_out, life, tour, prefs, ret>>

(***************************************************************************)
(* UniversalReminderScheduler._check_reminders                             *)
(***************************************************************************)
\* how an awaited bot.send_message may end
SendOutcomes == {"ok", "error"}

\* One pass of the loop body up to the first await: now_utc, the backfill,
\* the due query, and the call of send_message for the first row.
Tick(limit) ==
    /\ task = "running"
    /\ pc = "sleep"
    /\ IF BackfillRaises(reminders, now)
       THEN \* the exception leaves the try of the loop body: no query
            /\ \E fix \in SUBSET ToFix(reminders) :
                   reminders' = Backfilled(reminders, fix, now)
            /\ results' = <<"abandoned">>
            /\ UNCHANGED <<pc, now_utc, rows, i, sending>>
       ELSE /\ reminders' = Backfilled(reminders, ToFix(reminders), now)
            /\ \E batch \in SelectDue(reminders', now, limit) :
                   IF batch = <<>>
                   THEN /\ results' = <<>>
                        /\ UNCHANGED <<pc, now_utc, rows, i, sending>>
                   ELSE /\ pc' = "send"
                        /\ now_utc' = now
                        /\ rows' = batch
                        /\ i' = 1
                        /\ sending' \in SendOutcomes
                        /\ results' = <<>>
    /\ UNCHANGED <<now, calc_in, calc_out, life, tour, prefs, ret>>

\* the loop leaving the batch, without post-processing, on a failed send
SendDone_StopOnError ==
    /\ task = "running"
    /\ pc = "send"
    /\ reminders' = IF sending = "error" THEN reminders
                    ELSE PostProcess(reminders, rows[i], now_utc)
    /\ IF i < Len(rows) /\ sending = "ok"
       THEN /\ i' = i + 1
            /\ sending' \in SendOutcomes
            /\ results' = Append(results, sending)
            /\ UNCHANGED <<pc, now_utc, rows>>
       ELSE /\ pc' = "sleep"
            /\ now_utc' = NULL
            /\ rows' = <<>>
            /\ i' = 1
            /\ sending' = "none"
            /\ results' = <<>>
    /\ UNCHANGED <<now, calc_in, calc_out, life, tour, prefs, ret>>

\* The awaited send_message of rows[i] returns or raises, the row is
\* post-processed, and send_message is called for the next row; after the
\* last row the task sleeps (its locals are dead until the next pass).
SendDone ==
    /\ task = "running"
    /\ pc = "send"
    /\ reminders' = PostProcess(reminders, rows[i], now_utc)
    /\ IF i < Len(rows)
       THEN /\ i' = i + 1
            /\ sending' \in SendOutcomes
            /\ results' = Append(results, sending)
            /\ UNCHANGED <<pc, now_utc, rows>>
       ELSE /\ pc' = "sleep"
            /\ now_utc' = NULL
            /\ rows' = <<>>
            /\ i' = 1
            /\ sending' = "none"
            /\ results' = <<>>
    /\ UNCHANGED <<now, calc_in, calc_out, life, tour, prefs, ret>>

(***************************************************************************)
(* The specification of the running bot.                                   *)
(***************************************************************************)
Init ==
    /\ now = 0
    /\ reminders \in Tables
    /\ pc = "sleep"
    /\ now_utc = NULL
    /\ rows = <<>>
    /\ i = 1
    /\ sending = "none"
    /\ results = <<>>
    /\ calc_in = <<>>
    /\ calc_out = <<>>
    /\ task = "running"
    /\ unreferenced = 0
    /\ start_calls = 1
    /\ subs = {}
    /\ jobs = <<>>
    /\ passes = [p \in {"boot", "cron"} |-> IdlePass]
    /\ registered = {}
    /\ quiet = <<NULL, NULL>>
    /\ ret = <<>>

Next ==
    \/ Clock
    \/ \E id \in 1..MaxReminders, p \in BOOLEAN : set_paused(id, p)
    \/ \E id \in 1..MaxReminders : delete_reminder_by_id(id)
    \/ Tick(BatchLimit)
    \/ SendDone

Spec == Init /\ [][Next]_vars

\* The same bot with the batch size scaled down to the tables of the model,
\* so that more rows can be due than one batch holds.
NextCap ==
    \/ Clock
    \/ \E id \in 1..MaxReminders, p \in BOOLEAN : set_paused(id, p)
    \/ \E id \in 1..MaxReminders : delete_reminder_by_id(id)
    \/ Tick(CapLimit)
    \/ SendDone

SpecCap == Init /\ [][NextCap]_vars

(***************************************************************************)
(* The life cycle of the poller task: start(), stop() and the delivery of  *)
(* the cancellation to the coroutine.                                      *)
(***************************************************************************)
\* self._task and not self._task.done()
Alive(st) == st \in {"running", "cancelling"}

\* the tasks not done that nothing names once self._task is rebound
Rebound(old) == IF Alive(old) THEN unreferenced + 1 ELSE unreferenced

\* start() without its test of self._task
start_NoGuard ==
    /\ start_calls < MaxStarts
    /\ start_calls' = start_calls + 1
    /\ task' = "running"
    /\ unreferenced' = Rebound(task)
    /\ pc' = "sleep"
    /\ now_utc' = NULL
    /\ rows' = <<>>
    /\ i' = 1
    /\ sending' = "none"
    /\ results' = <<>>
    /\ UNCHANGED <<now, reminders, calc_in, calc_out, tour, prefs, ret>>

\* start(): returns when self._task is a task that is not done, else creates
\* the poller task, which starts with a pass of the loop body
start ==
    /\ start_calls < MaxStarts
    /\ start_calls' = start_calls + 1
    /\ IF Alive(task)
       THEN UNCHANGED <<task, unreferenced, pc, now_utc, rows, i, sending,
                        results>>
       ELSE /\ task' = "running"
            /\ unreferenced' = Rebound(task)
            /\ pc' = "sleep"
            /\ now_utc' = NULL
            /\ rows' = <<>>
            /\ i' = 1
            /\ sending' = "none"
            /\ results' = <<>>
    /\ UNCHANGED <<now, reminders, calc_in, calc_out, tour, prefs, ret>>

\* stop(): self._task.cancel(); a task that is done, or already being
\* cancelled, stays as it is
stop ==
    /\ task # "none"
    /\ task' = IF task = "running" THEN "cancelling" ELSE task
    /\ UNCHANGED <<now, reminders, pc, now_utc, rows, i, sending, results,
                   calc_in, calc_out, unreferenced, start_calls, tour, prefs, ret>>

\* The event loop throws CancelledError into the coroutine at the await it
\* is suspended in: asyncio.sleep (outside the try) or send_message, whose
\* "except Exception" does not catch it; the loop is left and the task ends.
Cancelled ==
    /\ task = "cancelling"
    /\ task' = "done"
    /\ pc' = "done"
    /\ now_utc' = NULL
    /\ rows' = <<>>
    /\ i' = 1
    /\ sending' = "none"
    /\ results' = <<>>
    /\ UNCHANGED <<now, reminders, calc_in, calc_out, unreferenced,
                   start_calls, tour, prefs, ret>>

\* the scheduler object after __init__, before on_startup
InitLife ==
    /\ now = 0
    /\ reminders \in Tables
    /\ pc = "done"
    /\ now_utc = NULL
    /\ rows = <<>>
    /\ i = 1
    /\ sending = "none"
    /\ results = <<>>
    /\ calc_in = <<>>
    /\ calc_out = <<>>
    /\ task = "none"
    /\ unreferenced = 0
    /\ start_calls = 0
    /\ subs = {}
    /\ jobs = <<>>
    /\ passes = [p \in {"boot", "cron"} |-> IdlePass]
    /\ registered = {}
    /\ quiet = <<NULL, NULL>>
    /\ ret = <<>>

\* the poller with its life cycle; the rows are written by the poller only
NextLife ==
    \/ Clock
    \/ Tick(BatchLimit)
    \/ SendDone
    \/ start
    \/ stop
    \/ Cancelled

SpecLife == InitLife /\ [][NextLife]_vars

(***************************************************************************)
(* A tick in which the store fails.                                        *)
(***************************************************************************)
\* the tick with the "except Exception" of the loop body left out: the
\* exception ends the task
TickStoreDown_Terminates ==
    /\ task = "running"
    /\ pc = "sleep"
    /\ \E fix \in SUBSET ToFix(reminders) :
           reminders' = Backfilled(reminders, fix, now)
    /\ task' = "done"
    /\ pc' = "done"
    /\ results' = <<"abandoned">>
    /\ UNCHANGED <<now, now_utc, rows, i, sending, calc_in, calc_out,
                   unreferenced, start_calls, tour, prefs, ret>>

\* psycopg2.connect raises in get_conn, in the backfill's SELECT or, after
\* the backfill (whose UPDATEs each may have failed), in the due query:
\* the exception is logged by the "except Exception" of the loop body and
\* the task sleeps.
TickStoreDown ==
    /\ task = "running"
    /\ pc = "sleep"
    /\ \E fix \in SUBSET ToFix(reminders) :
           reminders' = Backfilled(reminders, fix, now)
    /\ results' = <<"abandoned">>
    /\ UNCHANGED <<now, pc, now_utc, rows, i, sending, calc_in, calc_out,
                   life, tour, prefs, ret>>

NextStore ==
    \/ Next
    \/ TickStoreDown

SpecStore == Init /\ [][NextStore]_vars

(***************************************************************************)
(* The next-trigger calculator on its own: one call of                     *)
(* _calc_next_for_kind for a row and a reference instant.                  *)
(***************************************************************************)
CalcKinds ==
    {"", "once", "ONCE", "cron", "repeat_cron", "repeat_daily",
     "repeat_weekdays", "repeat_weekend", "repeat_monthly"}

CalcExprs ==
    {"00:10", "23:59", "25:00", "ab:cd", "0010", "*/15 * * * *",
     "10 0 * * *", "bad"}

CalcInstants ==
    {d * Day + o : d \in 0..MaxCalcDay,
                   o \in {0, 10 * Minute - 1, 10 * Minute, 10 * Minute + 1,
                          15 * Minute - 1, Day - Minute, Day - 1}}

InitCalc ==
    /\ now = 0
    /\ reminders = <<>>
    /\ pc = "sleep"
    /\ now_utc = NULL
    /\ rows = <<>>
    /\ i = 1
    /\ sending = "none"
    /\ results = <<>>
    /\ calc_in \in {<<[kind |-> k, cron_expr |-> e], t>> :
                       k \in CalcKinds, e \in CalcExprs, t \in CalcInstants}
    /\ calc_out = <<>>
    /\ task = "none"
    /\ unreferenced = 0
    /\ start_calls = 0
    /\ subs = {}
    /\ jobs = <<>>
    /\ passes = [p \in {"boot", "cron"} |-> IdlePass]
    /\ registered = {}
    /\ quiet = <<NULL, NULL>>
    /\ ret = <<>>

CalcStep ==
    /\ calc_out = <<>>
    /\ calc_out' = <<calc_next_for_kind(calc_in[1], calc_in[2])>>
    /\ UNCHANGED <<now, reminders, pc, now_utc, rows, i, sending, results,
                   calc_in, life, tour, prefs, ret>>

SpecCalc == InitCalc /\ [][CalcStep]_vars

(***************************************************************************)
(* The bot started on a table in which recurring rows await the backfill.  *)
(***************************************************************************)
\* rows without next_at, one of them with the hour that datetime.replace
\* refuses, among rows the backfill has to leave alone
FillRows ==
    <<Row("repeat_daily", "00:10", NULL, NULL),
      Row("repeat_daily", "25:00", NULL, NULL),
      Row("repeat_cron", "bad", NULL, NULL),
      Row("once", "", 10 * Minute, NULL),
      Row("cron", "*/15 * * * *", NULL, croniter_get_next("*/15 * * * *", 0))>>

FillTables ==
    UNION {{[id \in 1..n |-> FillRows[f[id]]] :
               f \in {g \in [1..n -> 1..Len(FillRows)] :
                        \A a, b \in 1..n : a < b => g[a] < g[b]}} :
           n \in 0..MaxReminders}

InitFill ==
    /\ now = 0
    /\ reminders \in FillTables
    /\ pc = "sleep"
    /\ now_utc = NULL
    /\ rows = <<>>
    /\ i = 1
    /\ sending = "none"
    /\ results = <<>>
    /\ calc_in = <<>>
    /\ calc_out = <<>>
    /\ task = "running"
    /\ unreferenced = 0
    /\ start_calls = 1
    /\ subs = {}
    /\ jobs = <<>>
    /\ passes = [p \in {"boot", "cron"} |-> IdlePass]
    /\ registered = {}
    /\ quiet = <<NULL, NULL>>
    /\ ret = <<>>

SpecFill == InitFill /\ [][Next]_vars

(***************************************************************************)
(* db.get_due_once_and_recurring: two queries on public.reminders, made    *)
(* one after the other by the synchronous client, for the same now.        *)
(***************************************************************************)
\* .lte(column, v) and .gte(column, v): a NULL column matches neither
Lte(x, v) == x # NULL /\ x <= v
Gte(x, v) == x # NULL /\ x >= v

\* the two queries without .gte(..., win_iso)
get_due_NoLowerBound(store, t, window_minutes) ==
    << {id \in DOMAIN store :
            /\ store[id].kind = "once"
            /\ store[id].paused = FALSE
            /\ Lte(store[id].remind_at, t)},
       {id \in DOMAIN store :
            /\ store[id].kind = "cron"
            /\ store[id].paused = FALSE
            /\ Lte(store[id].next_at, t)} >>

\* the ids of the rows of the two lists returned
get_due_once_and_recurring(store, t, window_minutes) ==
    LET win == t - window_minutes * Minute
    IN  << {id \in DOMAIN store :
                /\ store[id].kind = "once"
                /\ store[id].paused = FALSE
                /\ Lte(store[id].remind_at, t)
                /\ Gte(store[id].remind_at, win)},
           {id \in DOMAIN store :
                /\ store[id].kind = "cron"
                /\ store[id].paused = FALSE
                /\ Lte(store[id].next_at, t)
                /\ Gte(store[id].next_at, win)} >>

\* f"{mm} {hh} * * *" for the times of this model
FormatCron(mm, hh) ==
    CASE mm = 10 /\ hh = 0 -> "10 0 * * *"
      [] mm = 59 /\ hh = 23 -> "59 23 * * *"
      [] OTHER -> "? ? * * *"

\* db.normalize_cron for the texts of this model: 'HH:MM' with an hour and
\* a minute in range becomes 'MM HH * * *', any other text is returned as
\* it is
normalize_cron(expr) ==
    LET p == SplitColon(expr) IN
    IF /\ Len(p) = 2
       /\ IntOf(p[1]) # NULL /\ IntOf(p[2]) # NULL
       /\ 0 <= IntOf(p[1]) /\ IntOf(p[1]) < 24
       /\ 0 <= IntOf(p[2]) /\ IntOf(p[2]) < 60
    THEN FormatCron(IntOf(p[2]), IntOf(p[1]))
    ELSE expr

\* expressions given to add_recurring_reminder
AddExprs == {"00:10", "23:59", "25:00", "*/15 * * * *", "bad"}

\* the insert made before the validation
add_recurring_reminder_InsertFirst(cron_expr) ==
    /\ \E id \in 1..MaxReminders \ DOMAIN reminders :
           LET e == normalize_cron(cron_expr)
               nxt == croniter_get_next(e, now)
           IN  /\ reminders' =
                      [x \in DOMAIN reminders \cup {id} |->
                          IF x = id
                          THEN Row("cron", e, NULL,
                                   IF nxt = Raised THEN NULL ELSE nxt)
                          ELSE reminders[x]]
               /\ ret' = <<"add_recurring_reminder", <<cron_expr, now>>,
                           IF nxt = Raised THEN "raised" ELSE id>>
    /\ UNCHANGED <<now, pc, now_utc, rows, i, sending, results,
                   calc_in, calc_out, life, tour, prefs>>

\* db.add_recurring_reminder(user_id, chat_id, text, cron_expr), as
\* cmd_repeat calls it, without next_at: ValueError for an expression
\* croniter rejects, otherwise the row inserted under a new id
add_recurring_reminder(cron_expr) ==
    /\ \E id \in 1..MaxReminders \ DOMAIN reminders :
           LET e == normalize_cron(cron_expr)
               nxt == croniter_get_next(e, now)
           IN  IF nxt = Raised
               THEN /\ ret' = <<"add_recurring_reminder",
                                <<cron_expr, now>>, "raised">>
                    /\ UNCHANGED reminders
               ELSE /\ reminders' =
                           [x \in DOMAIN reminders \cup {id} |->
                               IF x = id THEN Row("cron", e, NULL, nxt)
                               ELSE reminders[x]]
                    /\ ret' = <<"add_recurring_reminder",
                                <<cron_expr, now>>, id>>
    /\ UNCHANGED <<now, pc, now_utc, rows, i, sending, results,
                   calc_in, calc_out, life, tour, prefs>>

\* window_minutes: the default, and a day
Windows == {10, 24 * 60}

\* a call of get_due_once_and_recurring
DueQuery ==
    /\ \E w \in Windows :
           ret' = <<"get_due_once_and_recurring", <<now, w>>,
                    get_due_once_and_recurring(reminders, now, w)>>
    /\ UNCHANGED <<now, reminders, pc, now_utc, rows, i, sending, results,
                   calc_in, calc_out, life, tour, prefs>>

\* the table and its readers and writers other than the poller
NextDue ==
    \/ Clock
    \/ \E id \in 1..MaxReminders, p \in BOOLEAN : set_paused(id, p)
    \/ \E id \in 1..MaxReminders : delete_reminder_by_id(id)
    \/ DueQuery

SpecDue == InitLife /\ [][NextDue]_vars

\* the table, rows being added and deleted as time passes
NextAdd ==
    \/ Clock
    \/ \E id \in 1..MaxReminders : delete_reminder_by_id(id)
    \/ \E e \in AddExprs : add_recurring_reminder(e)

SpecAdd == InitLife /\ [][NextAdd]_vars

(***************************************************************************)
(* /quiet: the handler stores the window in user_prefs.  Nothing reads it: *)
(* get_user_prefs has no caller and the due query of the poller selects    *)
(* by paused and the trigger instant only.                                 *)
(***************************************************************************)
\* the arguments of "/quiet off" and "/quiet 23-8"
QuietArgs == {<<NULL, NULL>>, <<23, 8>>}

\* db.set_quiet_hours(user_id, quiet_from, quiet_to)
set_quiet_hours(quiet_from, quiet_to) ==
    /\ quiet' = <<quiet_from, quiet_to>>
    /\ UNCHANGED <<now, reminders, pc, now_utc, rows, i, sending, results,
                   calc_in, calc_out, life, tour, ret>>

NextQuiet ==
    \/ Next
    \/ \E q \in QuietArgs : set_quiet_hours(q[1], q[2])

SpecQuiet == Init /\ [][NextQuiet]_vars

(***************************************************************************)
(* TournamentScheduler.  start() adds two jobs that run the synchronous    *)
(* _ensure_tournament_jobs, one at once ("boot") and one every 5 minutes   *)
(* ("cron"); the AsyncIOExecutor runs a function that is not a coroutine   *)
(* in a worker thread, so the two can be in their loops at the same time,  *)
(* and each call on the scheduler (get_job, remove, add_job) takes the     *)
(* job store lock on its own.  /subscribe_tournaments and                  *)
(* /unsubscribe_tournaments write the subscription only.                   *)
(***************************************************************************)
poller == <<now, reminders, pc, now_utc, rows, i, sending, results,
            calc_in, calc_out, life, prefs, ret>>

\* db.set_tournament_subscription with the table tournament_subscribers:
\* an omitted user_id is stored as 0; subscribing upserts the row
\* (user_id, chat_id), unsubscribing deletes the row with that chat_id AND
\* that user_id
set_tournament_subscription(store, chat_id, value, user_id) ==
    LET uid == IF user_id = NULL THEN 0 ELSE user_id
    IN  IF value
        THEN store \cup {<<uid, chat_id>>}
        ELSE store \ {<<uid, chat_id>>}

\* db.get_tournament_subscribed_chats: the chat_id of every row
get_tournament_subscribed_chats(store) == {r[2] : r \in store}

\* /subscribe_tournaments: set_tournament_subscription(chat_id, True), the
\* user_id omitted
Subscribe(chat_id) ==
    /\ chat_id \notin get_tournament_subscribed_chats(subs)
    /\ subs' = set_tournament_subscription(subs, chat_id, TRUE, NULL)
    /\ UNCHANGED <<jobs, passes, registered, poller>>

\* /unsubscribe_tournaments: set_tournament_subscription(chat_id, False)
Unsubscribe(chat_id) ==
    /\ chat_id \in get_tournament_subscribed_chats(subs)
    /\ subs' = set_tournament_subscription(subs, chat_id, FALSE, NULL)
    /\ UNCHANGED <<jobs, passes, registered, poller>>

\* the lists of the chats of S, each once, in any order
Orders(S) ==
    {o \in [1..Cardinality(S) -> S] : \A a, b \in 1..Cardinality(S) :
                                          o[a] = o[b] => a = b}

\* the pass after its last statement or an exception: the date job is
\* spent, the cron job waits for its next run
Ended(p) == IF p = "boot" THEN [IdlePass EXCEPT !.st = "finished"] ELSE IdlePass

\* the chat and the slot the pass is at, and the id of their job
CurChat(p) == passes[p].chats[passes[p].c]
CurSlot(p) == TOURNAMENT_MINUTES[passes[p].s]
CurId(p) == job_id(CurChat(p), CurSlot(p))

\* rows = get_tournament_subscribed_chats(); no row, no iteration
PassBegin(p) ==
    /\ passes[p].st = "idle"
    /\ \E o \in Orders(get_tournament_subscribed_chats(subs)) :
           passes' = [passes EXCEPT ![p] =
                         IF o = <<>> THEN Ended(p)
                         ELSE [IdlePass EXCEPT !.st = "run", !.chats = o]]
    /\ UNCHANGED <<subs, jobs, registered, poller>>

\* old = self.scheduler.get_job(job_id)
PassGet(p) ==
    /\ passes[p].st = "run"
    /\ passes[p].ph = "get"
    /\ passes' = [passes EXCEPT ![p].ph =
                     IF get_job(jobs, CurId(p)) # <<>> THEN "remove"
                     ELSE "add"]
    /\ UNCHANGED <<subs, jobs, registered, poller>>

\* if old: old.remove(); remove_job raises JobLookupError when the store
\* no longer holds the id, and the exception ends the pass
PassRemove(p) ==
    /\ passes[p].st = "run"
    /\ passes[p].ph = "remove"
    /\ IF CurId(p) \in DOMAIN jobs
       THEN /\ jobs' = remove_job(jobs, CurId(p))
            /\ passes' = [passes EXCEPT ![p].ph = "add"]
       ELSE /\ passes' = [passes EXCEPT ![p] = Ended(p)]
            /\ UNCHANGED jobs
    /\ UNCHANGED <<subs, registered, poller>>

\* self.scheduler.add_job(...), then the next slot, the next chat or the
\* end of the pass
PassAdd(p) ==
    /\ passes[p].st = "run"
    /\ passes[p].ph = "add"
    /\ jobs' = add_job(jobs, CurId(p), Job(CurChat(p), CurSlot(p)))
    /\ IF passes[p].s < Len(TOURNAMENT_MINUTES)
       THEN /\ passes' = [passes EXCEPT ![p].s = @ + 1, ![p].ph = "get"]
            /\ UNCHANGED registered
       ELSE /\ registered' = registered \cup {CurChat(p)}
            /\ passes' = [passes EXCEPT ![p] =
                   IF passes[p].c < Len(passes[p].chats)
                   THEN [@ EXCEPT !.c = @ + 1, !.s = 1, !.ph = "get"]
                   ELSE Ended(p)]
    /\ UNCHANGED <<subs, poller>>

\* the scheduler after start(), with the subscriptions the database holds
InitTour ==
    /\ now = 0
    /\ reminders = <<>>
    /\ pc = "sleep"
    /\ now_utc = NULL
    /\ rows = <<>>
    /\ i = 1
    /\ sending = "none"
    /\ results = <<>>
    /\ calc_in = <<>>
    /\ calc_out = <<>>
    /\ task = "none"
    /\ unreferenced = 0
    /\ start_calls = 0
    /\ subs \in SUBSET ({0} \X Chats)
    /\ jobs = <<>>
    /\ passes = [p \in {"boot", "cron"} |-> IdlePass]
    /\ registered = {}
    /\ quiet = <<NULL, NULL>>
    /\ ret = <<>>

NextTour ==
    \/ \E chat_id \in Chats : Subscribe(chat_id)
    \/ \E chat_id \in Chats : Unsubscribe(chat_id)
    \/ \E p \in {"boot", "cron"} : PassBegin(p)
    \/ \E p \in {"boot", "cron"} : PassGet(p)
    \/ \E p \in {"boot", "cron"} : PassRemove(p)
    \/ \E p \in {"boot", "cron"} : PassAdd(p)

SpecTour == InitTour /\ [][NextTour]_vars

(***************************************************************************)
(* Steps of the poller, as seen on a pair of states.                       *)
(***************************************************************************)
\* a step in which the awaited send of rows[i] ended and the row was
\* post-processed
SendDoneStep == pc = "send" /\ (pc' = "sleep" \/ i' = i + 1)

IsOnceKind(kind) == NormKind(kind) \in {"", "once"}

\* the batch just selected holds the row id
Selected(id) == pc' = "send" /\ \E k \in 1..Len(rows') : rows'[k].id = id

\* fewer than limit other due rows have a trigger at or before that of id
Reached(store, id, limit) ==
    Cardinality({j \in DueIds(store, now) \ {id} :
                    Coalesce(store[j]) <= Coalesce(store[id])}) < limit

C2_AdvancedInSameTick ==
    [][(/\ SendDoneStep
        /\ ~IsOnceKind(rows[i].kind)
        /\ rows[i].id \in DOMAIN reminders') =>
           ~IsDue(reminders'[rows[i].id], now_utc)]_vars

(***************************************************************************)
(* C3: every next_at the poller writes when it advances a recurring        *)
(* reminder is strictly greater than the next_at it replaces.              *)
(***************************************************************************)
C3_NextAtIncreases ==
    [][(/\ SendDoneStep
        /\ ~IsOnceKind(rows[i].kind)
        /\ rows[i].id \in DOMAIN reminders
        /\ calc_next_for_kind(rows[i], now_utc) \notin {NULL, Raised}) =>
           /\ rows[i].id \in DOMAIN reminders'
           /\ reminders'[rows[i].id].next_at
                  = calc_next_for_kind(rows[i], now_utc)
           /\ reminders[rows[i].id].next_at # NULL
           /\ reminders'[rows[i].id].next_at > reminders[rows[i].id].next_at
      ]_vars

\* a daily reminder that has been advanced twice
C3_Witness ==
    \E id \in DOMAIN reminders :
        /\ reminders[id].kind = "repeat_daily"
        /\ reminders[id].next_at = 2 * Day + 10 * Minute

(***************************************************************************)
(* C4: for every recurring kind, rule and reference instant,               *)
(* _calc_next_for_kind returns None or an instant strictly later than the  *)
(* reference instant.                                                      *)
(***************************************************************************)
C4_NoneOrLater ==
    (/\ calc_out # <<>>
     /\ NormKind(calc_in[1].kind) \in
            {"cron", "repeat_cron", "repeat_daily", "repeat_weekdays",
             "repeat_weekend"}) =>
        (calc_out[1] = NULL \/ calc_out[1] > calc_in[2])

(***************************************************************************)
(* C5: when the next trigger of a due recurring reminder cannot be         *)
(* computed, the poller keeps the row, flags it paused, and the row is     *)
(* not due at any later instant.                                           *)
(***************************************************************************)
C5_PausedOnBadRule ==
    [][(/\ SendDoneStep
        /\ ~IsOnceKind(rows[i].kind)
        /\ rows[i].id \in DOMAIN reminders
        /\ calc_next_for_kind(rows[i], now_utc) \in {NULL, Raised}) =>
           /\ rows[i].id \in DOMAIN reminders'
           /\ reminders'[rows[i].id].paused = TRUE
           /\ \A t \in Instants : ~IsDue(reminders'[rows[i].id], t)]_vars

(***************************************************************************)
(* C6: no poll tick, backfill pass, pause or resume command takes a table  *)
(* in which every active recurring reminder has a next_at to a table in    *)
(* which a recurring reminder is active and without a next_at.             *)
(***************************************************************************)
C6_ActiveHasNextAt ==
    [][(\A id \in DOMAIN reminders :
           (~IsOnceKind(reminders[id].kind) /\ reminders[id].paused = FALSE)
               => reminders[id].next_at # NULL)
       => (\A id \in DOMAIN reminders' :
              (~IsOnceKind(reminders'[id].kind)
               /\ reminders'[id].paused = FALSE)
                  => reminders'[id].next_at # NULL)]_vars

(***************************************************************************)
(* C7: when the send of a due one-off reminder fails, the poller leaves    *)
(* the row as it is.                                                       *)
(***************************************************************************)
C7_FailedOnceUntouched ==
    [][(/\ SendDoneStep
        /\ sending = "error"
        /\ IsOnceKind(rows[i].kind)
        /\ rows[i].id \in DOMAIN reminders) =>
           /\ rows[i].id \in DOMAIN reminders'
           /\ reminders'[rows[i].id] = reminders[rows[i].id]]_vars

(***************************************************************************)
(* C8: when a send fails, the poller does the bookkeeping of a successful  *)
(* send (a one-off row is deleted, a recurring row gets the next_at        *)
(* computed for it) and calls the send of the next row of the batch.       *)
(***************************************************************************)
C8_FailureBookkeeping ==
    [][(SendDoneStep /\ sending = "error") =>
           /\ IsOnceKind(rows[i].kind) => rows[i].id \notin DOMAIN reminders'
           /\ (/\ ~IsOnceKind(rows[i].kind)
               /\ rows[i].id \in DOMAIN reminders
               /\ calc_next_for_kind(rows[i], now_utc) \notin {NULL, Raised})
                  => /\ rows[i].id \in DOMAIN reminders'
                     /\ reminders'[rows[i].id].next_at
                            = calc_next_for_kind(rows[i], now_utc)
                     /\ reminders'[rows[i].id].next_at > now_utc
           /\ i < Len(rows) =>
                  /\ pc' = "send"
                  /\ i' = i + 1
                  /\ rows' = rows
                  /\ sending' \in SendOutcomes]_vars

\* the send of the first row failed, its one-off row is deleted, and the
\* send of the second row is awaited
C8_Witness ==
    /\ pc = "send"
    /\ i = 2
    /\ results[1] = "error"
    /\ rows[1].kind = "once"
    /\ rows[1].id \notin DOMAIN reminders
    /\ rows[2].id \in DOMAIN reminders

(***************************************************************************)
(* C9: a paused reminder is in no selected batch; set_paused keeps the row *)
(* and its remind_at and next_at; a reminder resumed at or after its       *)
(* instant is due again with the same instant.                             *)
(***************************************************************************)
C9_PausedKept ==
    [][/\ (Tick(BatchLimit) /\ pc' = "send") =>
              \A k \in 1..Len(rows') :
                  /\ rows'[k].id \in DOMAIN reminders'
                  /\ reminders'[rows'[k].id].paused = FALSE
       /\ \A id \in DOMAIN reminders, p \in BOOLEAN :
              set_paused(id, p) =>
                  /\ id \in DOMAIN reminders'
                  /\ reminders'[id].paused = p
                  /\ reminders'[id].remind_at = reminders[id].remind_at
                  /\ reminders'[id].next_at = reminders[id].next_at
                  /\ (/\ p = FALSE
                      /\ Coalesce(reminders[id]) # NULL
                      /\ Coalesce(reminders[id]) <= now)
                         => id \in DueIds(reminders', now)]_vars

\* a batch was selected at an instant at or after the trigger of a paused
\* reminder, and the paused reminder is not in it
C9_Witness ==
    /\ pc = "send"
    /\ \E id \in DOMAIN reminders :
           /\ reminders[id].paused = TRUE
           /\ Coalesce(reminders[id]) # NULL
           /\ Coalesce(reminders[id]) <= now_utc
           /\ \A k \in 1..Len(rows) : rows[k].id # id

(***************************************************************************)
(* C10: every reminder the poll loop selects has its trigger instant in    *)
(* [now_utc - catch-up window, now_utc].                                   *)
(***************************************************************************)
C10_WithinCatchUpWindow ==
    pc = "send" =>
        \A k \in 1..Len(rows) :
            /\ SnapTrigger(rows[k]) <= now_utc
            /\ SnapTrigger(rows[k]) >= now_utc - CatchUpWindow

C12_AdvancedFromPrevious ==
    [][(/\ SendDoneStep
        /\ NormKind(rows[i].kind) \in {"cron", "repeat_cron"}
        /\ rows[i].cron_expr = "*/15 * * * *"
        /\ rows[i].id \in DOMAIN reminders) =>
           /\ rows[i].id \in DOMAIN reminders'
           /\ reminders'[rows[i].id].next_at
                  = rows[i].next_at + 15 * Minute]_vars

(***************************************************************************)
(* C13: every next_at written for an active recurring reminder, by the     *)
(* post-processing or by the backfill, is at or after the next_at it       *)
(* replaces and is not before the clock at the moment of the write.        *)
(***************************************************************************)
C13_NeverIntoThePast ==
    [][\A id \in DOMAIN reminders \cap DOMAIN reminders' :
           (/\ ~IsOnceKind(reminders'[id].kind)
            /\ reminders'[id].paused = FALSE
            /\ reminders'[id].next_at # reminders[id].next_at
            /\ reminders'[id].next_at # NULL) =>
               /\ reminders'[id].next_at >= now
               /\ reminders[id].next_at # NULL =>
                      reminders'[id].next_at >= reminders[id].next_at]_vars

(***************************************************************************)
(* C14: a cancelled poller task ends only between two passes: the batch    *)
(* in flight when stop() was called is sent and post-processed to its end. *)
(***************************************************************************)
C14_FinishesBatch ==
    [][(task = "cancelling" /\ task' = "done") => pc = "sleep"]_vars

(***************************************************************************)
(* C15: after any calls of start() and stop() at most one poller task is   *)
(* not done, and a call of start() while the poller task is not done       *)
(* changes neither the task nor the pass it is in.                         *)
(***************************************************************************)
C15_OnePoller ==
    [][/\ unreferenced' + (IF Alive(task') THEN 1 ELSE 0) <= 1
       /\ (start_calls' # start_calls /\ Alive(task)) =>
              /\ task' = task
              /\ unreferenced' = unreferenced
              /\ <<pc, now_utc, rows, i, sending>>'
                     = <<pc, now_utc, rows, i, sending>>]_vars

\* start() was called more than once and the one poller is sending a batch
C15_Witness ==
    /\ start_calls > 1
    /\ task = "running"
    /\ unreferenced = 0
    /\ pc = "send"

(***************************************************************************)
(* C16: in a pass, the step that ends the send of a selected recurring     *)
(* reminder writes its next_at (a new instant, or NULL with paused), and   *)
(* no other step of the pass changes the next_at of a selected reminder.   *)
(***************************************************************************)
C16_WrittenOnce ==
    [][/\ (/\ SendDoneStep
           /\ ~IsOnceKind(rows[i].kind)
           /\ rows[i].id \in DOMAIN reminders) =>
              /\ rows[i].id \in DOMAIN reminders'
              /\ \/ reminders'[rows[i].id].next_at
                        # reminders[rows[i].id].next_at
                 \/ /\ reminders'[rows[i].id].next_at = NULL
                    /\ reminders'[rows[i].id].paused = TRUE
       /\ pc = "send" =>
              \A k \in 1..Len(rows) :
                  (/\ k # i \/ ~SendDoneStep
                   /\ rows[k].id \in DOMAIN reminders \cap DOMAIN reminders')
                      => reminders'[rows[k].id].next_at
                             = reminders[rows[k].id].next_at]_vars

(***************************************************************************)
(* C17: between the due selection of a tick and the post-processing of    *)
(* its last row, the table is changed by the poller's post-processing      *)
(* only.                                                                   *)
(***************************************************************************)
C17_NoInterleaving ==
    [][(pc = "send" /\ reminders' # reminders) => SendDoneStep]_vars

Slots == {TOURNAMENT_MINUTES[k] : k \in 1..Len(TOURNAMENT_MINUTES)}

\* the ids of the jobs of the store that send to chat_id at the slot
JobsOf(store, chat_id, slot) ==
    {id \in DOMAIN store : store[id] = Job(chat_id, slot)}

\* the ids of the jobs of the store that send to chat_id
JobsOfChat(store, chat_id) ==
    {id \in DOMAIN store : store[id].chat = chat_id}

Running(p) == passes[p].st = "run"

\* pass p has removed the job of (chat_id, slot) and not yet added it again
Replacing(p, chat_id, slot) ==
    /\ Running(p)
    /\ passes[p].ph = "add"
    /\ CurChat(p) = chat_id
    /\ CurSlot(p) = slot

(***************************************************************************)
(* C19: re-running _ensure_tournament_jobs creates no new jobs and never a *)
(* duplicate.  In every state, whatever the passes and however they        *)
(* interleave: no (chat, slot) pair has two jobs; every job is stored      *)
(* under the id derived from its own chat and slot; a chat that has been   *)
(* registered has, for every slot, its one job, or a pass is replacing     *)
(* just that job; and when no pass is running every registered chat has    *)
(* exactly one job per slot and six jobs in all.                           *)
(***************************************************************************)
C19_OneJobPerPair ==
    /\ \A chat_id \in Chats, slot \in Slots :
           Cardinality(JobsOf(jobs, chat_id, slot)) <= 1
    /\ \A id \in DOMAIN jobs :
           id = job_id(jobs[id].chat, <<jobs[id].hour, jobs[id].minute>>)
    /\ \A chat_id \in Chats, slot \in Slots :
           chat_id \in registered =>
               \/ Cardinality(JobsOf(jobs, chat_id, slot)) = 1
               \/ \E p \in {"boot", "cron"} : Replacing(p, chat_id, slot)
    /\ (\A p \in {"boot", "cron"} : ~Running(p)) =>
           \A chat_id \in Chats :
               chat_id \in registered =>
                   /\ \A slot \in Slots :
                          Cardinality(JobsOf(jobs, chat_id, slot)) = 1
                   /\ Cardinality(JobsOfChat(jobs, chat_id)) =
                          Len(TOURNAMENT_MINUTES)

\* a pass that runs alone over a chat already registered has found the job
\* of each slot, has replaced those of the first five and is about to
\* replace the last: the chat has its six jobs, as before the pass
C19_Witness ==
    \E p \in {"boot", "cron"} :
        /\ Running(p)
        /\ \A q \in {"boot", "cron"} \ {p} : ~Running(q)
        /\ CurChat(p) \in registered
        /\ passes[p].s = Len(TOURNAMENT_MINUTES)
        /\ passes[p].ph = "remove"
        /\ Cardinality(JobsOfChat(jobs, CurChat(p))) = 6
        /\ \A slot \in Slots :
               Cardinality(JobsOf(jobs, CurChat(p), slot)) = 1

(***************************************************************************)
(* C20: when a reconciliation pass ends, every chat of the list it read    *)
(* has exactly six jobs, one per slot 13:55, 15:55, 17:55, 19:55, 21:55,   *)
(* 23:55.  The two jobs that run the pass can overlap, and a pass replaces *)
(* a job by removing it and adding it again: one pass can end while the    *)
(* other has just removed a job, or be ended by the JobLookupError of      *)
(* removing a job the other has removed.                                   *)
(***************************************************************************)
C20_SixJobsAfterPass ==
    [][\A p \in {"boot", "cron"} :
          (Running(p) /\ passes'[p].st # "run") =>
              \A k \in 1..Len(passes[p].chats) :
                  /\ \A slot \in { <<13, 55>>, <<15, 55>>, <<17, 55>>,
                                   <<19, 55>>, <<21, 55>>, <<23, 55>> } :
                         Cardinality(JobsOf(jobs', passes[p].chats[k], slot))
                             = 1
                  /\ Cardinality(JobsOfChat(jobs', passes[p].chats[k])) = 6
      ]_vars

(***************************************************************************)
(* C21: when a chat unsubscribes, all six of its jobs are removed at once  *)
(* and no job of another chat is removed.  /unsubscribe_tournaments        *)
(* writes the subscription only, and a reconciliation pass visits the      *)
(* subscribed chats only: the jobs of the chat stay in the job store.      *)
(***************************************************************************)
C21_JobsRemoved ==
    [][\A chat_id \in Chats :
          (Unsubscribe(chat_id) /\ Cardinality(JobsOfChat(jobs, chat_id)) = 6)
              =>
              /\ JobsOfChat(jobs', chat_id) = {}
              /\ \A other \in Chats \ {chat_id} :
                     JobsOfChat(jobs', other) = JobsOfChat(jobs, other)
      ]_vars

(***************************************************************************)
(* C22: a reminder that is due while the owner's local hour (the owner's   *)
(* timezone being UTC here) lies inside the quiet-hours window is not      *)
(* delivered in that tick: a tick inside the window calls send_message     *)
(* for no row.  The poller never reads the window.                         *)
(***************************************************************************)
C22_NotSentInQuietHours ==
    [][LET h == (now % Day) \div Hour
           inside == /\ quiet # <<NULL, NULL>>
                     /\ IF quiet[1] <= quiet[2]
                        THEN quiet[1] <= h /\ h < quiet[2]
                        ELSE h >= quiet[1] \/ h < quiet[2]
       IN  (pc = "sleep" /\ inside) => pc' # "send"
      ]_vars

(***************************************************************************)
(* C23: each reminder has exactly one of the two trigger shapes, matching  *)
(* its kind: remind_at and neither rule nor next_at for kind once;         *)
(* cron_expr and next_at, and no remind_at, for a recurring kind.  Stated  *)
(* on the steps of the bot: no step takes a reminder that has its shape    *)
(* to one that has not.                                                    *)
(***************************************************************************)
C23_OneTriggerShape ==
    [][\A id \in DOMAIN reminders \cap DOMAIN reminders' :
          LET shaped(r) ==
                  IF IsOnceKind(r.kind)
                  THEN r.remind_at # NULL /\ r.cron_expr = ""
                       /\ r.next_at = NULL
                  ELSE r.cron_expr # "" /\ r.next_at # NULL
                       /\ r.remind_at = NULL
          IN  shaped(reminders[id]) => shaped(reminders'[id])
      ]_vars

(***************************************************************************)
(* C24: get_due_once_and_recurring(window) returns in its first list       *)
(* exactly the unpaused reminders of kind once with remind_at in the       *)
(* closed interval [now - window, now], in its second list exactly the     *)
(* unpaused reminders of kind cron with next_at in [now - window, now];    *)
(* a paused reminder and a reminder outside the interval are in neither    *)
(* list, and no reminder is in both.                                       *)
(***************************************************************************)
C24_DueLists ==
    [][(ret' # ret /\ ret'[1] = "get_due_once_and_recurring") =>
          LET t == ret'[2][1]
              lo == ret'[2][1] - ret'[2][2] * Minute
              once == ret'[3][1]
              cron == ret'[3][2]
          IN  /\ once \cap cron = {}
              /\ \A id \in DOMAIN reminders :
                     LET r == reminders[id]
                     IN  /\ id \in once <=>
                                /\ r.kind = "once" /\ ~r.paused
                                /\ r.remind_at # NULL
                                /\ lo <= r.remind_at /\ r.remind_at <= t
                         /\ id \in cron <=>
                                /\ r.kind = "cron" /\ ~r.paused
                                /\ r.next_at # NULL
                                /\ lo <= r.next_at /\ r.next_at <= t
                         /\ r.paused => id \notin once \cup cron
              /\ once \cup cron \subseteq DOMAIN reminders
      ]_vars

\* a call returned a one-off reminder whose remind_at is the lower end of
\* the interval, and left out a paused cron reminder whose next_at lies
\* inside the interval
C24_Witness ==
    /\ ret # <<>>
    /\ ret[1] = "get_due_once_and_recurring"
    /\ ret[2][1] = now
    /\ \E id \in ret[3][1] :
           /\ id \in DOMAIN reminders
           /\ reminders[id].remind_at = now - ret[2][2] * Minute
    /\ \E id \in DOMAIN reminders :
           /\ id \notin ret[3][1] \cup ret[3][2]
           /\ reminders[id].kind = "cron"
           /\ reminders[id].paused
           /\ Lte(reminders[id].next_at, now)
           /\ Gte(reminders[id].next_at, now - ret[2][2] * Minute)

C26_Backfill ==
    [][Tick(BatchLimit) =>
          \A id \in DOMAIN reminders :
              LET r == reminders[id] IN
              IF /\ ~r.paused /\ ~IsOnceKind(r.kind) /\ r.next_at = NULL
                 /\ calc_next_for_kind(r, now) \notin {NULL, Raised}
              THEN /\ id \in DOMAIN reminders'
                   /\ reminders'[id].next_at # NULL
                   /\ reminders'[id].next_at > now
                   /\ reminders'[id] =
                          [r EXCEPT !.next_at = reminders'[id].next_at]
              ELSE id \in DOMAIN reminders' /\ reminders'[id] = r
      ]_vars

(***************************************************************************)
(* C27: the post-processing of one reminder of the batch (delete, advance  *)
(* next_at, or pause) writes that reminder's row only: every other         *)
(* reminder is as before, no reminder appears, and the reminder itself,    *)
(* when advanced or paused, keeps its text, chat_id, kind, cron_expr and   *)
(* remind_at.                                                              *)
(***************************************************************************)
C27_OnlyThatRow ==
    [][SendDoneStep =>
          /\ DOMAIN reminders' \subseteq DOMAIN reminders
          /\ \A x \in DOMAIN reminders :
                 IF x # rows[i].id
                 THEN x \in DOMAIN reminders' /\ reminders'[x] = reminders[x]
                 ELSE x \in DOMAIN reminders' =>
                          /\ reminders'[x].text = reminders[x].text
                          /\ reminders'[x].chat_id = reminders[x].chat_id
                          /\ reminders'[x].kind = reminders[x].kind
                          /\ reminders'[x].cron_expr = reminders[x].cron_expr
                          /\ reminders'[x].remind_at = reminders[x].remind_at
      ]_vars

\* the first reminder of a batch of two has been paused for its rule, which
\* it keeps; the second, not yet post-processed, is as it was selected
C27_Witness ==
    /\ pc = "send"
    /\ i = 2
    /\ rows[1].id \in DOMAIN reminders
    /\ reminders[rows[1].id].paused
    /\ reminders[rows[1].id].next_at = NULL
    /\ reminders[rows[1].id].cron_expr = rows[1].cron_expr
    /\ rows[2].id \in DOMAIN reminders
    /\ ~reminders[rows[2].id].paused
    /\ reminders[rows[2].id].next_at = rows[2].next_at

(***************************************************************************)
(* C28: for a valid HH:MM, _calc_next_for_kind returns the earliest        *)
(* instant strictly after now_utc that is HH:MM (UTC) of a day, any day    *)
(* for repeat_daily, Monday to Friday for repeat_weekdays, Saturday or     *)
(* Sunday for repeat_weekend; and its while loop runs at most 5 times.     *)
(***************************************************************************)
C28_EarliestOnItsDays ==
    (/\ calc_out # <<>>
     /\ calc_in[1].kind \in
            {"repeat_daily", "repeat_weekdays", "repeat_weekend"}
     /\ parse_hhmm(calc_in[1].cron_expr) # <<>>
     /\ parse_hhmm(calc_in[1].cron_expr)[1] \in 0..23
     /\ parse_hhmm(calc_in[1].cron_expr)[2] \in 0..59) =>
        LET kind == calc_in[1].kind
            t == calc_in[2]
            hhmm == parse_hhmm(calc_in[1].cron_expr)
            at(d) == d * Day + hhmm[1] * Hour + hhmm[2] * Minute
            on(d) == CASE kind = "repeat_daily" -> TRUE
                       [] kind = "repeat_weekdays" -> (d + 3) % 7 \in 0..4
                       [] kind = "repeat_weekend" -> (d + 3) % 7 \in {5, 6}
            first == IF at(DayOf(t)) <= t THEN at(DayOf(t)) + Day
                     ELSE at(DayOf(t))
        IN  /\ calc_out[1] =
                   Min({at(d) : d \in {e \in DayOf(t)..(DayOf(t) + 8) :
                                          on(e) /\ at(e) > t}})
            /\ kind # "repeat_daily" =>
                   SkipCount(first, kind = "repeat_weekend") <= 5

\* repeat_weekend 00:10 asked on a Monday at 00:00 (day 4; day 0 is a
\* Thursday): the loop runs 5 times and the answer is Saturday 00:10
C28_Witness ==
    /\ calc_out # <<>>
    /\ calc_in[1] = [kind |-> "repeat_weekend", cron_expr |-> "00:10"]
    /\ calc_in[2] = 4 * Day
    /\ SkipCount(4 * Day + 10 * Minute, TRUE) = 5
    /\ calc_out[1] = 9 * Day + 10 * Minute

(***************************************************************************)
(* C29: a reminder its user has paused is never sent while it is paused,   *)
(* also when the pause is handled after a tick has selected the reminder   *)
(* and before the tick sends it: whenever the loop starts the send of a    *)
(* row that is then delivered, the row's reminder is not paused.           *)
(***************************************************************************)
C29_PausedNotSent ==
    [][(/\ pc' = "send"
        /\ pc # "send" \/ i' # i
        /\ sending' = "ok"
        /\ rows'[i'].id \in DOMAIN reminders')
           => ~reminders'[rows'[i'].id].paused]_vars

(***************************************************************************)
(* The "+15 min" and "tomorrow" buttons of a reminder card: only for a     *)
(* one-off reminder with a remind_at; db.update_remind_at stores the new   *)
(* instant and clears paused.                                              *)
(***************************************************************************)
\* the model follows a reminder up to 00:25 of the last day of the clock
ShiftHorizon == 25 * Minute

update_remind_at(store, reminder_id, when_utc_dt) ==
    IF reminder_id \in DOMAIN store
    THEN [store EXCEPT ![reminder_id].remind_at = when_utc_dt,
                       ![reminder_id].paused = FALSE]
    ELSE store

shift15(rid) ==
    /\ rid \in DOMAIN reminders
    /\ reminders[rid].kind \in {"", "once"}   \* "" is the NULL kind
    /\ reminders[rid].remind_at # NULL
    /\ (reminders[rid].remind_at % Day) + 15 * Minute <= ShiftHorizon
    /\ reminders' = update_remind_at(reminders, rid,
                                     reminders[rid].remind_at + 15 * Minute)
    /\ UNCHANGED <<now, pc, now_utc, rows, i, sending, results,
                   calc_in, calc_out, life, tour, prefs, ret>>

tomorrow(rid) ==
    /\ rid \in DOMAIN reminders
    /\ reminders[rid].kind \in {"", "once"}   \* "" is the NULL kind
    /\ reminders[rid].remind_at # NULL
    /\ DayOf(reminders[rid].remind_at) + 1 <= MaxDay
    /\ reminders' = update_remind_at(reminders, rid,
                                     reminders[rid].remind_at + Day)
    /\ UNCHANGED <<now, pc, now_utc, rows, i, sending, results,
                   calc_in, calc_out, life, tour, prefs, ret>>

NextShift ==
    \/ Clock
    \/ Tick(BatchLimit)
    \/ SendDone
    \/ \E rid \in 1..MaxReminders : shift15(rid)
    \/ \E rid \in 1..MaxReminders : tomorrow(rid)

SpecShift == Init /\ [][NextShift]_vars

(***************************************************************************)
(* C30: the poll loop deletes a one-off reminder only when its current     *)
(* remind_at is <= now; a one-off reminder whose remind_at the user moved  *)
(* to a future instant while the tick that selected it is in progress is   *)
(* not deleted by that tick.                                               *)
(***************************************************************************)
C30_MovedSurvives ==
    [][(/\ SendDoneStep
        /\ rows[i].id \in DOMAIN reminders
        /\ reminders[rows[i].id].remind_at # rows[i].remind_at
        /\ reminders[rows[i].id].remind_at # NULL
        /\ reminders[rows[i].id].remind_at > now)
           => rows[i].id \in DOMAIN reminders']_vars

(***************************************************************************)
(* Post-processing in which the store fails: get_conn, the DELETE or       *)
(* UPDATE, or the commit raises; the "except Exception" of step 4 logs it  *)
(* and the for loop goes on with the next row.                             *)
(***************************************************************************)
\* the failure leaving the for loop: the rest of the batch is dropped
SendDoneStoreDown_Abandon ==
    /\ task = "running"
    /\ pc = "send"
    /\ pc' = "sleep"
    /\ now_utc' = NULL
    /\ rows' = <<>>
    /\ i' = 1
    /\ sending' = "none"
    /\ results' = <<"abandoned">>
    /\ UNCHANGED <<now, reminders, calc_in, calc_out, life, tour, prefs, ret>>

SendDoneStoreDown ==
    /\ task = "running"
    /\ pc = "send"
    /\ IF i < Len(rows)
       THEN /\ i' = i + 1
            /\ sending' \in SendOutcomes
            /\ results' = Append(results, sending)
            /\ UNCHANGED <<pc, now_utc, rows>>
       ELSE /\ pc' = "sleep"
            /\ now_utc' = NULL
            /\ rows' = <<>>
            /\ i' = 1
            /\ sending' = "none"
            /\ results' = <<>>
    /\ UNCHANGED <<now, reminders, calc_in, calc_out, life, tour, prefs, ret>>

NextPost ==
    \/ Clock
    \/ Tick(BatchLimit)
    \/ SendDone
    \/ SendDoneStoreDown

SpecPost == Init /\ [][NextPost]_vars

(***************************************************************************)
(* C31: no reminder is sent twice for the same trigger instant, whatever   *)
(* fails: once send_message has delivered a row, the row's reminder is     *)
(* gone (a one-off reminder), or its trigger instant is later than the one *)
(* it was sent for, or it is paused without a trigger; so no later tick    *)
(* selects it for that instant again.                                      *)
(***************************************************************************)
C31_NotDueAgain ==
    [][(SendDoneStep /\ sending = "ok" /\ rows[i].id \in DOMAIN reminders')
           => LET r == reminders'[rows[i].id]
              IN  /\ NormKind(r.kind) \notin {"", "once"}
                  /\ \/ r.paused /\ r.next_at = NULL
                     \/ Coalesce(r) # NULL /\ Coalesce(r) > Coalesce(rows[i])
       ]_vars

(***************************************************************************)
(* C32: a store failure in the post-processing of one reminder is confined *)
(* to that reminder: the task keeps running, the store is as it was, a     *)
(* later row of the batch is sent next in the same tick with the batch and *)
(* its instant unchanged, and after the last row the loop sleeps until the *)
(* next tick.                                                              *)
(***************************************************************************)
C32_FailureConfined ==
    [][(pc = "send" /\ task = "running" /\ reminders' = reminders
        /\ results' # results)
           => /\ task' = "running"
              /\ IF i < Len(rows)
                 THEN /\ pc' = "send"
                      /\ i' = i + 1
                      /\ rows' = rows
                      /\ now_utc' = now_utc
                      /\ sending' \in SendOutcomes
                      /\ results' = Append(results, sending)
                 ELSE /\ pc' = "sleep"
                      /\ rows' = <<>>
                      /\ results' = <<>>
       ]_vars

\* the post-processing of the first of two rows has failed: its reminder is
\* as it was selected, and the second row is being sent
C32_Witness ==
    /\ pc = "send"
    /\ i = 2
    /\ Len(results) = 1
    /\ rows[1].id \in DOMAIN reminders
    /\ NormKind(rows[1].kind) = "once"
    /\ task = "running"

(***************************************************************************)
(* The poller whose ticks keep running: the task is never cancelled, the   *)
(* store is available, and neither asyncio.sleep nor send_message blocks   *)
(* for ever, so a tick that can run does run and a send in flight ends.    *)
(***************************************************************************)
NextFair ==
    \/ Clock
    \/ Tick(BatchLimit)
    \/ SendDone

SpecFair ==
    /\ InitFill
    /\ [][NextFair]_vars
    /\ WF_vars(Tick(BatchLimit))
    /\ WF_vars(SendDone)

(***************************************************************************)
(* C33: while ticks keep running and the store is available, every         *)
(* unpaused reminder that is due is eventually sent, or paused, whatever   *)
(* other reminders exist.                                                  *)
(***************************************************************************)
C33_DueIsSent ==
    \A id \in 1..MaxReminders :
        (id \in DOMAIN reminders /\ IsDue(reminders[id], now))
            ~> \/ pc = "send" /\ rows[i].id = id
               \/ id \notin DOMAIN reminders
               \/ reminders[id].paused

(***************************************************************************)
(* C34: after any calls of start() and stop() that end with start(), a     *)
(* poller task exists that keeps ticking: when start() returns, the        *)
(* scheduler's task is running and no cancellation of it is pending.       *)
(***************************************************************************)
C34_RunningAfterStart ==
    [][start_calls' # start_calls => task' = "running"]_vars

(***************************************************************************)
(* db.set_tournament_subscription called with any user_id, given or        *)
(* omitted.                                                                *)
(***************************************************************************)
UserIds == {NULL, 7, 8}

SetSubscription(chat_id, value, user_id) ==
    /\ subs' = set_tournament_subscription(subs, chat_id, value, user_id)
    /\ ret' = <<"set_tournament_subscription", <<chat_id, value, user_id>>,
                Cardinality(subs')>>
    /\ UNCHANGED <<now, reminders, pc, now_utc, rows, i, sending, results,
                   calc_in, calc_out, life, prefs, jobs, passes, registered>>

NextSub ==
    \E chat_id \in 1..(MaxChats + 1), value \in BOOLEAN, user_id \in UserIds :
        SetSubscription(chat_id, value, user_id)

SpecSub == InitTour /\ [][NextSub]_vars

(***************************************************************************)
(* C35: after set_tournament_subscription(chat, False) the chat is not     *)
(* among get_tournament_subscribed_chats, whatever user_id the earlier     *)
(* subscribe calls and the unsubscribe call were given.                    *)
(***************************************************************************)
C35_Unsubscribed ==
    [][\A chat_id \in 1..(MaxChats + 1), user_id \in UserIds :
          SetSubscription(chat_id, FALSE, user_id)
              => chat_id \notin get_tournament_subscribed_chats(subs')]_vars

(***************************************************************************)
(* A daily occurrence of a slot.  The scheduler wakes at the slot's        *)
(* instant and, holding the job store lock, submits every job of the store *)
(* whose trigger is that slot: _send_tournament(chat_id, ...) runs once    *)
(* for each.  A job that is added after the instant has its first run on   *)
(* the next day.                                                           *)
(***************************************************************************)
process_jobs(slot) ==
    /\ ret' = <<"_send_tournament", slot,
                {jobs[id].chat : id \in {x \in DOMAIN jobs :
                                           /\ jobs[x].hour = slot[1]
                                           /\ jobs[x].minute = slot[2]}}>>
    /\ UNCHANGED <<now, reminders, pc, now_utc, rows, i, sending, results,
                   calc_in, calc_out, life, prefs, tour>>

NextFire ==
    \/ NextTour
    \/ \E slot \in Slots : process_jobs(slot)

SpecFire == InitTour /\ [][NextFire]_vars

(***************************************************************************)
(* C36: replacing a chat's slot job during reconciliation (remove, then    *)
(* add under the same id) never makes a firing of the slot be missed: at   *)
(* every occurrence of a slot, every subscribed chat whose jobs have been  *)
(* registered is sent its notification, however the reconciliation passes  *)
(* interleave with the firing.                                             *)
(***************************************************************************)
C36_NoFiringMissed ==
    [][\A slot \in Slots :
          process_jobs(slot) =>
              \A chat_id \in registered \cap
                             get_tournament_subscribed_chats(subs) :
                  chat_id \in ret'[3]]_vars

(***************************************************************************)
(* /add_repeat <mode> <HH:MM> text: the cron expression the command builds *)
(* and stores, and the instants at which croniter makes it fire.  The five *)
(* fields of the expression are kept apart; the day fields are the text    *)
(* the command writes into them.                                           *)
(***************************************************************************)
RepeatModes == {"daily", "weekdays", "sunday", "monthly"}

\* f"{mm} {hh} * * *", f"{mm} {hh} 1-5 * *", f"{mm} {hh} * * 0"; <<>> for
\* a mode the command refuses
cmd_add_repeat(mode, hh, mm) ==
    CASE mode = "daily" ->
           <<[minute |-> mm, hour |-> hh, dom |-> "*", month |-> "*",
              dow |-> "*"]>>
      [] mode = "weekdays" ->
           <<[minute |-> mm, hour |-> hh, dom |-> "1-5", month |-> "*",
              dow |-> "*"]>>
      [] mode = "sunday" ->
           <<[minute |-> mm, hour |-> hh, dom |-> "*", month |-> "*",
              dow |-> "0"]>>
      [] OTHER -> <<>>

\* the values a day field of these expressions stands for
FieldValues(field, all) ==
    CASE field = "*" -> all
      [] field = "1-5" -> 1..5
      [] field = "0" -> {0}

\* the instants of the model lie in January 1970: day 0 is the 1st
DayOfMonth(t) == DayOf(t) + 1

\* cron's day of week, 0 for Sunday, from datetime.weekday(), 0 for Monday
CronDow(t) == (weekday(t) + 1) % 7

\* croniter: the expression fires at the minute t when minute, hour and
\* month match and the day matches; with both day fields restricted either
\* may match, otherwise both must
croniter_match(expr, t) ==
    LET domOk == DayOfMonth(t) \in FieldValues(expr.dom, 1..31)
        dowOk == CronDow(t) \in FieldValues(expr.dow, 0..6)
    IN  /\ t % Minute = 0
        /\ (t % Hour) \div Minute = expr.minute
        /\ (t % Day) \div Hour = expr.hour
        /\ 1 \in FieldValues(expr.month, 1..12)
        /\ IF expr.dom # "*" /\ expr.dow # "*"
           THEN domOk \/ dowOk
           ELSE domOk /\ dowOk

RepeatInstants ==
    {d * Day + o : d \in 0..MaxCalcDay,
                   o \in {0, 10 * Minute, 11 * Minute, Day - Minute}}

InitRepeat ==
    /\ now = 0
    /\ reminders = <<>>
    /\ pc = "sleep"
    /\ now_utc = NULL
    /\ rows = <<>>
    /\ i = 1
    /\ sending = "none"
    /\ results = <<>>
    /\ calc_in \in {<<[mode |-> m, hh |-> hm[1], mm |-> hm[2]], t>> :
                       m \in RepeatModes,
                       hm \in {<<0, 10>>, <<23, 59>>},
                       t \in RepeatInstants}
    /\ calc_out = <<>>
    /\ task = "none"
    /\ unreferenced = 0
    /\ start_calls = 0
    /\ subs = {}
    /\ jobs = <<>>
    /\ passes = [p \in {"boot", "cron"} |-> IdlePass]
    /\ registered = {}
    /\ quiet = <<NULL, NULL>>
    /\ ret = <<>>

\* the command, and whether the rule it stored fires at the instant
RepeatStep ==
    /\ calc_out = <<>>
    /\ LET expr == cmd_add_repeat(calc_in[1].mode, calc_in[1].hh,
                                  calc_in[1].mm)
       IN  calc_out' = IF expr = <<>> THEN <<"refused">>
                       ELSE <<expr[1], croniter_match(expr[1], calc_in[2])>>
    /\ UNCHANGED <<now, reminders, pc, now_utc, rows, i, sending, results,
                   calc_in, life, tour, prefs, ret>>

SpecRepeat == InitRepeat /\ [][RepeatStep]_vars

(***************************************************************************)
(* C37: the rule /add_repeat stores fires at an instant exactly when the   *)
(* instant is HH:MM of a Monday to Friday for mode weekdays, of a Sunday   *)
(* for mode sunday, and of any day for mode daily.                         *)
(***************************************************************************)
C37_FiresOnItsDays ==
    Len(calc_out) = 2 =>
        LET c == calc_in[1]
            t == calc_in[2]
            onDay == CASE c.mode = "daily" -> TRUE
                       [] c.mode = "weekdays" -> weekday(t) \in 0..4
                       [] c.mode = "sunday" -> weekday(t) = 6
        IN  calc_out[2] = (/\ t % Day = c.hh * Hour + c.mm * Minute
                           /\ onDay)

(***************************************************************************)
(* db.resolve_selector_to_id, pause_or_resume and delete_by_selector on a  *)
(* table with the reminders of two chats and two authors.                  *)
(***************************************************************************)
SelRow(kind, remind_at, next_at, chat_id, created_by) ==
    [kind |-> kind, cron_expr |-> "", remind_at |-> remind_at,
     next_at |-> next_at, paused |-> FALSE, chat_id |-> chat_id,
     text |-> "text", created_by |-> created_by]

SelRows ==
    <<SelRow("once", 10 * Minute, NULL, 1, 7),
      SelRow("once", 20 * Minute, NULL, 1, 8),
      SelRow("once", 10 * Minute, NULL, 2, 7),
      SelRow("repeat_daily", NULL, 10 * Minute, 2, 8)>>

\* ids are uuids and carry no order: the tables are taken up to renaming
SelTables ==
    UNION {{[id \in 1..n |-> SelRows[f[id]]] :
               f \in {g \in [1..n -> 1..Len(SelRows)] :
                        \A a, b \in 1..n : a < b => g[a] < g[b]}} :
           n \in 1..MaxReminders}

\* a selector: <<"uuid", k>> is the id of reminder k as a string (a string
\* with "-" in it; k may be an id the table does not hold), <<"int", n>> is
\* the number n or its digits, <<"text", 0>> is a string int() refuses
Selectors ==
    {<<"uuid", k>> : k \in 1..(MaxReminders + 1)}
        \cup {<<"int", n>> : n \in 0..(MaxReminders + 1)}
        \cup {<<"text", 0>>}

\* get_active_reminders_for_chat(chat_id, include_paused=True): the ids of
\* the chat's rows by remind_at, then next_at (NULL first), rows with equal
\* keys in any order
get_active_reminders_for_chat(store, chat_id) ==
    LET S == {id \in DOMAIN store : store[id].chat_id = chat_id}
        before(a, b) ==
            \/ store[a].remind_at < store[b].remind_at
            \/ /\ store[a].remind_at = store[b].remind_at
               /\ store[a].next_at < store[b].next_at
    IN  {o \in [1..Cardinality(S) -> S] :
            /\ \A a, b \in 1..Cardinality(S) : o[a] = o[b] => a = b
            /\ \A a, b \in 1..Cardinality(S) :
                   before(o[b], o[a]) => b < a}

RECURSIVE ByAuthor(_, _, _)
\* rows = [r for r in rows if r.get("created_by") == user_id]
ByAuthor(store, list, user_id) ==
    IF list = <<>> THEN <<>>
    ELSE IF store[list[1]].created_by = user_id
         THEN <<list[1]>> \o ByAuthor(store, Tail(list), user_id)
         ELSE ByAuthor(store, Tail(list), user_id)

\* the UUID branch without its test of the chat
resolve_selector_to_id_AnyChat(store, chat_id, selector, user_id, list) ==
    IF selector[1] = "uuid"
    THEN IF /\ selector[2] \in DOMAIN store
            /\ (user_id = NULL \/ store[selector[2]].created_by = user_id)
         THEN selector[2]
         ELSE NULL
    ELSE IF selector[1] = "text" \/ selector[2] <= 0 THEN NULL
    ELSE LET own == IF user_id = NULL THEN list
                    ELSE ByAuthor(store, list, user_id)
         IN  IF selector[2] <= Len(own) THEN own[selector[2]] ELSE NULL

\* list is what get_active_reminders_for_chat returned
resolve_selector_to_id(store, chat_id, selector, user_id, list) ==
    IF selector[1] = "uuid"
    THEN IF /\ selector[2] \in DOMAIN store
            /\ store[selector[2]].chat_id = chat_id
            /\ (user_id = NULL \/ store[selector[2]].created_by = user_id)
         THEN selector[2]
         ELSE NULL
    ELSE IF selector[1] = "text" \/ selector[2] <= 0 THEN NULL
    ELSE LET own == IF user_id = NULL THEN list
                    ELSE ByAuthor(store, list, user_id)
         IN  IF selector[2] <= Len(own) THEN own[selector[2]] ELSE NULL

SelChats == {1, 2}
SelUsers == {NULL, 7}

pause_or_resume(chat_id, selector, value, user_id) ==
    /\ \E list \in get_active_reminders_for_chat(reminders, chat_id) :
           LET rid == resolve_selector_to_id(reminders, chat_id, selector,
                                             user_id, list)
           IN  /\ reminders' = IF rid = NULL THEN reminders
                               ELSE [reminders EXCEPT ![rid].paused = value]
               /\ ret' = <<"pause_or_resume",
                           <<chat_id, selector, value, user_id>>, rid>>
    /\ UNCHANGED <<now, pc, now_utc, rows, i, sending, results,
                   calc_in, calc_out, life, tour, prefs>>

delete_by_selector(chat_id, selector, user_id) ==
    /\ \E list \in get_active_reminders_for_chat(reminders, chat_id) :
           LET rid == resolve_selector_to_id(reminders, chat_id, selector,
                                             user_id, list)
           IN  /\ reminders' = IF rid = NULL THEN reminders
                               ELSE [x \in DOMAIN reminders \ {rid} |->
                                        reminders[x]]
               /\ ret' = <<"delete_by_selector",
                           <<chat_id, selector, user_id>>, rid>>
    /\ UNCHANGED <<now, pc, now_utc, rows, i, sending, results,
                   calc_in, calc_out, life, tour, prefs>>

InitSel ==
    /\ now = 0
    /\ reminders \in SelTables
    /\ pc = "sleep"
    /\ now_utc = NULL
    /\ rows = <<>>
    /\ i = 1
    /\ sending = "none"
    /\ results = <<>>
    /\ calc_in = <<>>
    /\ calc_out = <<>>
    /\ task = "none"
    /\ unreferenced = 0
    /\ start_calls = 0
    /\ subs = {}
    /\ jobs = <<>>
    /\ passes = [p \in {"boot", "cron"} |-> IdlePass]
    /\ registered = {}
    /\ quiet = <<NULL, NULL>>
    /\ ret = <<>>

NextSel ==
    \/ \E chat_id \in SelChats, selector \in Selectors, value \in BOOLEAN,
          user_id \in SelUsers :
           pause_or_resume(chat_id, selector, value, user_id)
    \/ \E chat_id \in SelChats, selector \in Selectors, user_id \in SelUsers :
           delete_by_selector(chat_id, selector, user_id)

SpecSel == InitSel /\ [][NextSel]_vars

====
